---- MODULE Spec2Model ----
(***************************************************************************)
(* Download tracking of the dataset sharing platform.                      *)
(*                                                                         *)
(* The committed contents of the relational store are the tables `users`,  *)
(* `dataset` (ids and downloads_count) and `user_downloads`.  Each request *)
(* runs DownloadTrackingService.track_download on a SQLAlchemy session of  *)
(* its own (autocommit=False, autoflush=False, expire_on_commit default):  *)
(* a session reads committed data statement by statement, keeps what it    *)
(* read in its identity map, and writes the values it holds when it        *)
(* commits.  One action is one database round trip of the handler.         *)
(***************************************************************************)
EXTENDS Integers, Naturals, Sequences, FiniteSets, TLC

\* ---------------------------------------------------------------- bounds
NumUsers ==
    3
NumDatasets ==
    1
NumSessions ==
    2
MaxCalls ==
    3
MaxDeletes ==
    1

Users ==
    1..NumUsers
Datasets ==
    1..NumDatasets
Sessions ==
    1..NumSessions

\* download_type arguments used by the callers ('file' | 'dataset')
DownloadTypes ==
    {"file", "dataset"}

VARIABLES
    users,            \* user_id of every row of table users
    dataset_ids,      \* dataset_id of every row of table dataset
    downloads_count,  \* dataset.downloads_count, per dataset_id
    dataset_last_updated, \* dataset.dataset_last_updated, per dataset_id
    user_downloads,   \* rows of table user_downloads
    pc,               \* per session: position inside the request
    local,            \* per session: arguments and identity-map values
    clock,            \* datetime.now(): last instant handed out
    calls,            \* number of track_download calls begun
    returned,         \* outcomes handed back to callers, in order
    report            \* what the last read-only request returned

vars ==
    <<users, dataset_ids, downloads_count, dataset_last_updated,
      user_downloads, pc, local, clock, calls, returned, report>>

\* Dataset.uploader_id of the datasets present at start
Uploader(d) ==
    ((d - 1) % NumUsers) + 1

\* number of users and datasets deleted so far
Deleted ==
    Cardinality(Users \ users) + Cardinality(Datasets \ dataset_ids)

\* get_db hands each request a session of its own; the request takes the
\* first free slot
FreeSession(s) ==
    \A s2 \in Sessions : s2 < s => pc[s2] # "idle"

\* ------------------------------------------------------- ledger helpers
\* db.query(UserDownload).filter(user_id == u, dataset_id == d)
RowsOf(u, d) ==
    {r \in user_downloads : r.user_id = u /\ r.dataset_id = d}

HasRow(u, d) ==
    RowsOf(u, d) # {}

\* .first()
FirstRow(u, d) ==
    CHOOSE r \in RowsOf(u, d) : TRUE

RowsOfDataset(d) ==
    {r \in user_downloads : r.dataset_id = d}

\* no read-only request has returned yet
NoReport ==
    [op |-> "none"]

\* session locals of a session that runs no request
IdleLocal ==
    [user_id |-> 0, dataset_id |-> 0, download_type |-> "none",
     cached |-> FALSE, ds_found |-> FALSE, downloads_count |-> 0,
     total_download_count |-> 0, row_type |-> "none", now |-> 0,
     endpoint |-> FALSE, fetched |-> FALSE, streamed |-> FALSE]

\* existing_download.total_download_count += 1
IncrementCountMut(c) ==
    c
IncrementCount(c) ==
    c + 1

\* if existing_download.download_type != download_type: 'mixed'
\* (loaded: the type the session read; the UPDATE carries the column only
\* when the session changed it, otherwise the stored value stays)
\* (a variant that takes the type of the latest call)
MergeTypeMut(stored, loaded, t) ==
    IF loaded # t THEN t ELSE stored
MergeType(stored, loaded, t) ==
    IF loaded # t THEN "mixed" ELSE stored

\* the retry branch never assigns download_type
RetryType(stored, loaded, t) ==
    stored

\* the repeat and retry branches assign total_download_count,
\* last_download_date and (repeat only) download_type, nothing else
FirstDateOnUpdateMut(stored, now) ==
    now
FirstDateOnUpdate(stored, now) ==
    stored

\* dataset.downloads_count += 1
NewCount(c) ==
    c + 1

\* db.rollback() after IntegrityError discards the flushed UPDATE of dataset
RolledBackCount(committed, flushed) ==
    committed

\* the repeat and retry branches do not touch the Dataset object
RepeatDatasetCountMut(c) ==
    c + 1
RepeatDatasetCount(c) ==
    c

\* uq_user_dataset_download: a second row for the pair is rejected
UniqueViolationMut(u, d) ==
    FALSE
UniqueViolation(u, d) ==
    HasRow(u, d)

\* foreign keys of user_downloads on users and dataset
ForeignKeyViolationMut(u, d) ==
    u \notin users
ForeignKeyViolation(u, d) ==
    u \notin users \/ d \notin dataset_ids

\* download_dataset, lines 414-437: an exception of track_download is logged
\* and the StreamingResponse is returned all the same
EndpointResponseMut(err) ==
    IF err THEN "error" ELSE "streaming"
EndpointResponse(err) ==
    "streaming"

\* except IntegrityError: one re-fetch of the row, no loop back to STEP 1
OnIntegrityErrorMut ==
    "lookup"
OnIntegrityError ==
    "retry_lookup"

\* a call's outcome as seen by its caller; for a call made by the dataset
\* download endpoint, also the response the endpoint then returns
Outcome(s, branch, err, first, total, cnt) ==
    [user_id |-> local[s].user_id, dataset_id |-> local[s].dataset_id,
     download_type |-> local[s].download_type, branch |-> branch,
     raised |-> err,
     is_first_download |-> first, total_user_downloads |-> total,
     dataset_download_count |-> cnt,
     response |-> IF local[s].endpoint THEN EndpointResponse(err)
                  ELSE "none"]

\* except Exception: db.rollback(); raise
Raise(s, branch) ==
    /\ returned' = Append(returned, Outcome(s, branch, TRUE, FALSE, 0, 0))
    /\ pc' = [pc EXCEPT ![s] = "idle"]
    /\ local' = [local EXCEPT ![s] = IdleLocal]

Return(s, branch, first, total, cnt) ==
    /\ returned' = Append(returned,
                          Outcome(s, branch, FALSE, first, total, cnt))
    /\ pc' = [pc EXCEPT ![s] = "idle"]
    /\ local' = [local EXCEPT ![s] = IdleLocal]

\* ------------------------------------------------------------------ Init
Init ==
    /\ users = Users
    /\ dataset_ids = Datasets
    /\ downloads_count = [d \in Datasets |-> 0]
    /\ dataset_last_updated = [d \in Datasets |-> 0]
    /\ user_downloads = {}
    /\ pc = [s \in Sessions |-> "idle"]
    /\ local = [s \in Sessions |-> IdleLocal]
    /\ clock = 0
    /\ calls = 0
    /\ returned = <<>>
    /\ report = NoReport

\* --------------------------------------------------------------- actions
\* GET /datasets/{id}/download: get_dataset loads the Dataset into the
\* request's session, the ZIP is built, then track_download is called
\* with download_type="dataset".  The identity map holds the Dataset
\* weakly and the endpoint keeps no reference to it: `kept` tells whether
\* the object is still there when track_download queries it again.  Every
\* file whose bytes cannot be fetched is skipped and listed in
\* download_errors.txt: `fetched` tells whether any file's bytes got into
\* the ZIP.  The StreamingResponse is built after track_download is back,
\* so nothing is streamed while the call runs.
DownloadDatasetBegin(s, u, d, kept, fetched) ==
    /\ pc[s] = "idle"
    /\ FreeSession(s)
    /\ calls < MaxCalls
    /\ u \in users
    /\ d \in dataset_ids
    /\ calls' = calls + 1
    /\ pc' = [pc EXCEPT ![s] = "lookup"]
    /\ local' = [local EXCEPT ![s] =
                   [IdleLocal EXCEPT
                      !.user_id = u, !.dataset_id = d,
                      !.download_type = "dataset",
                      !.cached = kept,
                      !.endpoint = TRUE,
                      !.fetched = fetched,
                      !.streamed = FALSE,
                      !.downloads_count =
                          IF kept THEN downloads_count[d] ELSE 0]]
    /\ UNCHANGED <<report, dataset_last_updated, users, dataset_ids,
                   downloads_count, user_downloads,
                   clock, returned>>

\* track_download called on a fresh session (as the test script does)
TrackDownloadBegin(s, u, d, t) ==
    /\ pc[s] = "idle"
    /\ FreeSession(s)
    /\ calls < MaxCalls
    /\ calls' = calls + 1
    /\ pc' = [pc EXCEPT ![s] = "lookup"]
    /\ local' = [local EXCEPT ![s] =
                   [IdleLocal EXCEPT !.user_id = u, !.dataset_id = d,
                                     !.download_type = t]]
    /\ UNCHANGED <<report, dataset_last_updated, users, dataset_ids,
                   downloads_count, user_downloads,
                   clock, returned>>

\* STEP 1: look the pair up; the branch taken fixes the in-memory changes
Lookup(s) ==
    /\ pc[s] = "lookup"
    /\ LET u == local[s].user_id
           d == local[s].dataset_id
       IN  /\ clock' = clock + 1
           /\ IF HasRow(u, d)
              THEN /\ pc' = [pc EXCEPT ![s] = "repeat_commit"]
                   /\ local' = [local EXCEPT
                        ![s].total_download_count =
                            IncrementCount(FirstRow(u, d).total_download_count),
                        ![s].row_type = FirstRow(u, d).download_type,
                        ![s].now = clock + 1]
              ELSE /\ pc' = [pc EXCEPT ![s] = "first_query"]
                   /\ local' = [local EXCEPT ![s].now = clock + 1]
    /\ UNCHANGED <<report, dataset_last_updated, users, dataset_ids,
                   downloads_count, user_downloads,
                   calls, returned>>

\* STEP 2A: db.commit() of the repeat branch, one UPDATE of the row
RepeatCommit(s) ==
    /\ pc[s] = "repeat_commit"
    /\ LET u == local[s].user_id
           d == local[s].dataset_id
       IN  IF HasRow(u, d)
           THEN LET old == FirstRow(u, d)
                    new == [old EXCEPT
                              !.total_download_count =
                                  local[s].total_download_count,
                              !.last_download_date = local[s].now,
                              !.first_download_date =
                                  FirstDateOnUpdate(@, local[s].now),
                              !.download_type =
                                  MergeType(@, local[s].row_type,
                                            local[s].download_type)]
                IN  /\ user_downloads' =
                          (user_downloads \ {old}) \cup {new}
                    /\ downloads_count' =
                          [x \in DOMAIN downloads_count |->
                             IF x = d /\ d \in dataset_ids
                             THEN RepeatDatasetCount(downloads_count[x])
                             ELSE downloads_count[x]]
                    /\ pc' = [pc EXCEPT ![s] = "repeat_return"]
                    /\ UNCHANGED <<local, returned>>
           ELSE \* the row was deleted meanwhile: StaleDataError
                /\ Raise(s, "repeat")
                /\ UNCHANGED <<user_downloads, downloads_count>>
    /\ UNCHANGED <<report,
                   dataset_last_updated, users, dataset_ids, clock, calls>>

\* lines 100-109: read the dataset count, refresh the expired row, return
RepeatReturn(s) ==
    /\ pc[s] = "repeat_return"
    /\ LET u == local[s].user_id
           d == local[s].dataset_id
       IN  IF HasRow(u, d)
           THEN Return(s, "repeat", FALSE, FirstRow(u, d).total_download_count,
                       IF d \in dataset_ids THEN downloads_count[d] ELSE 0)
           ELSE Raise(s, "repeat")   \* ObjectDeletedError on the refresh
    /\ UNCHANGED <<report, dataset_last_updated, users, dataset_ids,
                   downloads_count, user_downloads,
                   clock, calls>>

\* STEP 2B, line 127: db.query(Dataset).first().  A Dataset the session
\* already holds keeps the attribute values it was loaded with.
FirstQuery(s) ==
    /\ pc[s] = "first_query"
    /\ LET d == local[s].dataset_id
       IN  local' = [local EXCEPT
               ![s].ds_found = (d \in dataset_ids),
               ![s].downloads_count =
                   IF d \in dataset_ids /\ ~local[s].cached
                   THEN downloads_count[d] ELSE @]
    /\ pc' = [pc EXCEPT ![s] = "first_commit"]
    /\ UNCHANGED <<report, dataset_last_updated, users, dataset_ids,
                   downloads_count, user_downloads,
                   clock, calls, returned>>

\* the row built at lines 115-123
NewDownload(s) ==
    [user_id |-> local[s].user_id, dataset_id |-> local[s].dataset_id,
     download_type |-> local[s].download_type,
     first_download_date |-> local[s].now,
     last_download_date |-> local[s].now,
     total_download_count |-> 1]

\* line 135: db.commit() flushes UPDATE dataset, then INSERT user_downloads
FirstCommit(s) ==
    /\ pc[s] = "first_commit"
    /\ LET u == local[s].user_id
           d == local[s].dataset_id
           flushed == NewCount(local[s].downloads_count)
       IN  IF local[s].ds_found /\ d \notin dataset_ids
           THEN \* UPDATE matched no row: StaleDataError, outer handler
                /\ Raise(s, "first")
                /\ UNCHANGED <<user_downloads, downloads_count>>
           ELSE IF UniqueViolation(u, d) \/ ForeignKeyViolation(u, d)
           THEN \* IntegrityError: STEP 3
                /\ pc' = [pc EXCEPT ![s] = OnIntegrityError]
                /\ downloads_count' =
                      [x \in DOMAIN downloads_count |->
                         IF x = d /\ local[s].ds_found
                         THEN RolledBackCount(downloads_count[x], flushed)
                         ELSE downloads_count[x]]
                /\ UNCHANGED <<user_downloads, local, returned>>
           ELSE /\ user_downloads' = user_downloads \cup {NewDownload(s)}
                /\ downloads_count' = [downloads_count EXCEPT ![d] = flushed]
                /\ Return(s, "first", TRUE, 1, flushed)
    /\ UNCHANGED <<report,
                   dataset_last_updated, users, dataset_ids, clock, calls>>

\* lines 147-158: rollback, re-fetch the row, change it in memory
RetryLookup(s) ==
    /\ pc[s] = "retry_lookup"
    /\ LET u == local[s].user_id
           d == local[s].dataset_id
       IN  IF HasRow(u, d)
           THEN /\ pc' = [pc EXCEPT ![s] = "retry_commit"]
                /\ clock' = clock + 1
                /\ local' = [local EXCEPT
                     ![s].total_download_count =
                         IncrementCount(FirstRow(u, d).total_download_count),
                     ![s].row_type = FirstRow(u, d).download_type,
                     ![s].now = clock + 1]
                /\ UNCHANGED returned
           ELSE \* "Download tracking failed due to race condition"
                /\ Raise(s, "retry")
                /\ UNCHANGED clock
    /\ UNCHANGED <<report, dataset_last_updated, users, dataset_ids,
                   downloads_count, user_downloads,
                   calls>>

\* line 159: db.commit() of the retry branch
RetryCommit(s) ==
    /\ pc[s] = "retry_commit"
    /\ LET u == local[s].user_id
           d == local[s].dataset_id
       IN  IF HasRow(u, d)
           THEN LET old == FirstRow(u, d)
                    new == [old EXCEPT
                              !.total_download_count =
                                  local[s].total_download_count,
                              !.last_download_date = local[s].now,
                              !.first_download_date =
                                  FirstDateOnUpdate(@, local[s].now),
                              !.download_type =
                                  RetryType(@, local[s].row_type,
                                            local[s].download_type)]
                IN  /\ user_downloads' =
                          (user_downloads \ {old}) \cup {new}
                    /\ downloads_count' =
                          [x \in DOMAIN downloads_count |->
                             IF x = d /\ d \in dataset_ids
                             THEN RepeatDatasetCount(downloads_count[x])
                             ELSE downloads_count[x]]
                    /\ pc' = [pc EXCEPT ![s] = "retry_return"]
                    /\ UNCHANGED <<local, returned>>
           ELSE /\ Raise(s, "retry")
                /\ UNCHANGED <<user_downloads, downloads_count>>
    /\ UNCHANGED <<report,
                   dataset_last_updated, users, dataset_ids, clock, calls>>

\* lines 161-168
RetryReturn(s) ==
    /\ pc[s] = "retry_return"
    /\ LET u == local[s].user_id
           d == local[s].dataset_id
       IN  IF HasRow(u, d)
           THEN Return(s, "retry", FALSE, FirstRow(u, d).total_download_count,
                       IF d \in dataset_ids THEN downloads_count[d] ELSE 0)
           ELSE Raise(s, "retry")
    /\ UNCHANGED <<report, dataset_last_updated, users, dataset_ids,
                   downloads_count, user_downloads,
                   clock, calls>>

\* AdminRepository.delete_user, committed by AdminService.delete_user
DeleteUser(u) ==
    /\ u \in users
    /\ Deleted < MaxDeletes
    /\ LET uploaded == {d \in dataset_ids : Uploader(d) = u}
       IN  /\ user_downloads' =
                 {r \in user_downloads :
                     r.dataset_id \notin uploaded /\ r.user_id # u}
           /\ dataset_ids' = dataset_ids \ uploaded
           /\ downloads_count' =
                 [d \in DOMAIN downloads_count |->
                    IF d \in uploaded THEN 0 ELSE downloads_count[d]]
           /\ dataset_last_updated' =
                 [d \in DOMAIN downloads_count |->
                    IF d \in uploaded THEN 0 ELSE dataset_last_updated[d]]
    /\ users' = users \ {u}
    /\ UNCHANGED <<report, pc, local, clock, calls, returned>>

\* DatasetService.delete_dataset: db.delete(dataset); no cascade reaches
\* user_downloads, so the commit goes through only when no row refers to it
DeleteDataset(d) ==
    /\ d \in dataset_ids
    /\ Deleted < MaxDeletes
    /\ RowsOfDataset(d) = {}
    /\ dataset_ids' = dataset_ids \ {d}
    /\ downloads_count' = [downloads_count EXCEPT ![d] = 0]
    /\ dataset_last_updated' = [dataset_last_updated EXCEPT ![d] = 0]
    /\ UNCHANGED <<report,
                   users, user_downloads, pc, local, clock, calls, returned>>

Next ==
    \/ \E s \in Sessions, u \in Users, d \in Datasets,
          kept \in BOOLEAN, fetched \in BOOLEAN :
          DownloadDatasetBegin(s, u, d, kept, fetched)
    \/ \E s \in Sessions, u \in Users, d \in Datasets, t \in DownloadTypes :
          TrackDownloadBegin(s, u, d, t)
    \/ \E s \in Sessions : Lookup(s)
    \/ \E s \in Sessions : RepeatCommit(s)
    \/ \E s \in Sessions : RepeatReturn(s)
    \/ \E s \in Sessions : FirstQuery(s)
    \/ \E s \in Sessions : FirstCommit(s)
    \/ \E s \in Sessions : RetryLookup(s)
    \/ \E s \in Sessions : RetryCommit(s)
    \/ \E s \in Sessions : RetryReturn(s)
    \/ \E u \in Users : DeleteUser(u)
    \/ \E d \in Datasets : DeleteDataset(d)

Spec ==
    Init /\ [][Next]_vars
\* ------------------------------------------------------------ properties
\* positions in `returned` of the outcomes of calls for the pair (u, d)
OutcomesOf(u, d) ==
    {i \in DOMAIN returned :
        returned[i].user_id = u /\ returned[i].dataset_id = d}

\* ... of the calls that returned a result
OkOf(u, d) ==
    {i \in OutcomesOf(u, d) : ~returned[i].raised}

\* sessions inside a track_download call for the pair
InFlight(u, d) ==
    {s \in Sessions : pc[s] # "idle" /\ local[s].user_id = u
                                     /\ local[s].dataset_id = d}

\* calls begun so far for the pair
Begun(u, d) ==
    Cardinality(OutcomesOf(u, d)) + Cardinality(InFlight(u, d))

\* users that called track_download for dataset d
CallersOf(d) ==
    {u \in Users : Begun(u, d) > 0}

AllIdle ==
    \A s \in Sessions : pc[s] = "idle"

\* C1: among the calls for one pair of an existing user and dataset,
\* whatever their interleaving, at most one row exists and at most one call
\* returns is_first_download = TRUE; once all of them are back none raised,
\* exactly one returned TRUE, exactly one row exists, and (no other user
\* having called for the dataset) downloads_count has gone up by exactly 1.
C1_ExactlyOneFirst ==
    \A u \in users, d \in dataset_ids :
        /\ Cardinality(RowsOf(u, d)) <= 1
        /\ Cardinality({i \in OkOf(u, d) :
                           returned[i].is_first_download}) <= 1
        /\ (InFlight(u, d) = {} /\ OutcomesOf(u, d) # {}) =>
              /\ OkOf(u, d) = OutcomesOf(u, d)
              /\ Cardinality({i \in OkOf(u, d) :
                                 returned[i].is_first_download}) = 1
              /\ Cardinality(RowsOf(u, d)) = 1
              /\ (CallersOf(d) = {u}) => downloads_count[d] = 1

\* two calls for the pair raced: one took the conflict-retry branch, and
\* both are back
C1_Witness ==
    \E u \in users, d \in dataset_ids :
        /\ InFlight(u, d) = {}
        /\ Cardinality(OutcomesOf(u, d)) >= 2
        /\ \E i \in OkOf(u, d) : returned[i].branch = "retry"
        /\ CallersOf(d) = {u}

\* C2: once every call is back, the downloads_count of a dataset equals the
\* number of distinct users that downloaded it (it started at 0).
C2_CounterIsDistinctUsers ==
    \A d \in dataset_ids :
        AllIdle =>
            downloads_count[d] =
                Cardinality({u \in Users : OkOf(u, d) # {}})

\* C3: with no call for the pair in flight, total_download_count of the
\* pair's row equals the number of calls for the pair that returned.
C3_CountIsCalls ==
    \A u \in users, d \in dataset_ids :
        (InFlight(u, d) = {} /\ HasRow(u, d)) =>
            FirstRow(u, d).total_download_count = Cardinality(OkOf(u, d))

\* C4: downloads_count of every dataset equals the number of user_downloads
\* rows that refer to it.
C4_CounterIsRowCount ==
    \A d \in dataset_ids :
        downloads_count[d] = Cardinality(RowsOfDataset(d))

\* C5: a committed downloads_count never decreases, and every change of it
\* is an increase of exactly 1.
C5_CounterMonotonic ==
    [][\A d \in dataset_ids \cap dataset_ids' :
          \/ downloads_count'[d] = downloads_count[d]
          \/ downloads_count'[d] = downloads_count[d] + 1]_vars

\* ------------------------------------------------- sequential callers
\* The test script issues its track_download calls one after another: a
\* call begins only when no other call is in flight.  No second session
\* can then insert between a call's lookup and its commit, so the retry
\* branch is entered only through a foreign-key failure and never finds a
\* row to update.
NextSeq ==
    \/ \E s \in Sessions, u \in Users, d \in Datasets,
          kept \in BOOLEAN, fetched \in BOOLEAN :
          AllIdle /\ DownloadDatasetBegin(s, u, d, kept, fetched)
    \/ \E s \in Sessions, u \in Users, d \in Datasets, t \in DownloadTypes :
          AllIdle /\ TrackDownloadBegin(s, u, d, t)
    \/ \E s \in Sessions : Lookup(s)
    \/ \E s \in Sessions : RepeatCommit(s)
    \/ \E s \in Sessions : RepeatReturn(s)
    \/ \E s \in Sessions : FirstQuery(s)
    \/ \E s \in Sessions : FirstCommit(s)
    \/ \E s \in Sessions : RetryLookup(s)
    \/ \E u \in Users : DeleteUser(u)
    \/ \E d \in Datasets : DeleteDataset(d)

SpecSeq ==
    Init /\ [][NextSeq]_vars

\* the outcome is the k-th result returned for its pair
Rank(i) ==
    Cardinality({j \in OkOf(returned[i].user_id, returned[i].dataset_id) :
                    j <= i})

\* C6: of the calls made one after another for a pair, the first returns
\* is_first_download = TRUE, every later one FALSE, and the k-th returns
\* total_user_downloads = k, whatever the download types.
C6_SequentialCalls ==
    \A i \in DOMAIN returned :
        ~returned[i].raised =>
            /\ returned[i].is_first_download = (Rank(i) = 1)
            /\ returned[i].total_user_downloads = Rank(i)

\* MaxCalls calls for one pair are back, of both download types
C6_Witness ==
    \E u \in Users, d \in Datasets :
        /\ Cardinality(OkOf(u, d)) = MaxCalls
        /\ \E i, j \in OkOf(u, d) :
              /\ returned[i].download_type = "file"
              /\ returned[j].download_type = "dataset"
        /\ \E i \in OkOf(u, d) : returned[i].total_user_downloads = MaxCalls

\* the last outcome appended by the step
LastOutcome ==
    returned'[Len(returned')]

\* C7: every step of the repeat branch (the commit of the row update and
\* the return) leaves every downloads_count as it was, and a result it
\* returns has is_first_download = FALSE.
C7_RepeatLeavesCounter ==
    [][\A s \in Sessions :
          (pc[s] \in {"repeat_commit", "repeat_return"} /\ pc'[s] # pc[s]) =>
              /\ downloads_count' = downloads_count
              /\ (Len(returned') > Len(returned) /\ ~LastOutcome.raised) =>
                    ~LastOutcome.is_first_download]_vars

\* a repeat download of the other type has returned
C7_Witness ==
    \E i \in DOMAIN returned :
        /\ returned[i].branch = "repeat"
        /\ ~returned[i].raised
        /\ \E j \in OkOf(returned[i].user_id, returned[i].dataset_id) :
              j < i /\ returned[j].download_type # returned[i].download_type
        /\ downloads_count[returned[i].dataset_id] = 1

\* C8: a step adds a row for a dataset exactly when it raises that
\* dataset's downloads_count by 1.
C8_InsertAndIncrementTogether ==
    [][\A d \in dataset_ids \cap dataset_ids' :
          (\E r \in user_downloads' :
              r.dataset_id = d /\ ~HasRow(r.user_id, d))
          <=> (downloads_count'[d] = downloads_count[d] + 1)]_vars

\* a call for the pair has taken the conflict-retry branch
Raced(u, d) ==
    \/ \E s \in InFlight(u, d) :
          pc[s] \in {"retry_lookup", "retry_commit", "retry_return"}
    \/ \E i \in OutcomesOf(u, d) : returned[i].branch = "retry"

\* C9: when exactly two calls were made for a pair of an existing user and
\* dataset and one of them lost the insert race, no call raised, the loser
\* returned is_first_download = FALSE with total_user_downloads = 2, and
\* once both are back the row's count is 2 and (no other user having
\* called for the dataset) downloads_count is 1.
C9_LoserRetries ==
    \A u \in users, d \in dataset_ids :
        (Begun(u, d) = 2 /\ Raced(u, d)) =>
            /\ \A i \in OutcomesOf(u, d) : ~returned[i].raised
            /\ \A i \in OutcomesOf(u, d) :
                  returned[i].branch = "retry" =>
                      /\ ~returned[i].is_first_download
                      /\ returned[i].total_user_downloads = 2
            /\ InFlight(u, d) = {} =>
                  /\ HasRow(u, d)
                  /\ FirstRow(u, d).total_download_count = 2
                  /\ (CallersOf(d) = {u}) => downloads_count[d] = 1

\* both calls of a two-call race are back
C9_Witness ==
    \E u \in users, d \in dataset_ids :
        /\ Begun(u, d) = 2
        /\ InFlight(u, d) = {}
        /\ CallersOf(d) = {u}
        /\ \E i \in OutcomesOf(u, d) :
              returned[i].branch = "retry" /\ ~returned[i].raised

\* download types of the events recorded for the pair
TypesOf(u, d) ==
    {returned[i].download_type : i \in OkOf(u, d)}

\* C10: once the calls for a pair are back and they include a 'file' and a
\* 'dataset' event, the stored download_type is 'mixed'.
C10_MixedWhenBothTypes ==
    \A u \in users, d \in dataset_ids :
        (InFlight(u, d) = {} /\ HasRow(u, d)
            /\ DownloadTypes \subseteq TypesOf(u, d)) =>
                FirstRow(u, d).download_type = "mixed"

\* ------------------------------------------------------ storage failures
\* A statement or a commit of the call fails (connection lost, statement
\* timeout): the exception leaves track_download through db.rollback() or,
\* inside the IntegrityError handler, as it is; what the session had not
\* committed is discarded, what it had committed stays.
StorageFailure(s) ==
    /\ pc[s] # "idle"
    /\ Raise(s, "failure")
    /\ UNCHANGED <<report, dataset_last_updated, users, dataset_ids,
                   downloads_count, user_downloads,
                   clock, calls>>

NextSeqFail ==
    \/ NextSeq
    \/ \E s \in Sessions : StorageFailure(s)

SpecSeqFail ==
    Init /\ [][NextSeqFail]_vars

\* C11: a call that raises leaves the ledger and the counters as they were
\* before it; so, of calls made one after another, only those that returned
\* show in the store: a pair has a row exactly when a call for it returned,
\* the row's count is the number of calls that returned, and downloads_count
\* is the number of users with a call that returned.
C11_RaisedCallLeavesNoTrace ==
    AllIdle =>
        \A d \in dataset_ids :
            /\ \A u \in users :
                  /\ HasRow(u, d) <=> (OkOf(u, d) # {})
                  /\ HasRow(u, d) =>
                        FirstRow(u, d).total_download_count =
                            Cardinality(OkOf(u, d))
            /\ downloads_count[d] =
                  Cardinality({u \in Users : OkOf(u, d) # {}})

\* C12: no step creates or updates a ledger row for a dataset that does not
\* exist, and a call that ends when its dataset does not exist ends by
\* raising (so it never returns is_first_download = TRUE).
C12_MissingDatasetRaises ==
    [][/\ \A r \in user_downloads' \ user_downloads :
             r.dataset_id \in dataset_ids
       /\ (Len(returned') > Len(returned)
              /\ LastOutcome.dataset_id \notin dataset_ids) =>
                 LastOutcome.raised]_vars

\* a call of an existing user found no dataset at line 127, failed on the
\* foreign key at commit, found no row to update and raised; no call for
\* the dataset ever returned and no row refers to it
C12_Witness ==
    \E i \in DOMAIN returned :
        /\ returned[i].raised
        /\ returned[i].branch = "retry"
        /\ returned[i].user_id \in users
        /\ returned[i].dataset_id \notin dataset_ids
        /\ \A j \in DOMAIN returned :
              returned[j].dataset_id = returned[i].dataset_id =>
                  returned[j].raised
        /\ RowsOfDataset(returned[i].dataset_id) = {}

\* ----------------------------------------------------- ids that are None
\* user_id=None or dataset_id=None as an argument (None compares as no id
\* of any row)
NullId ==
    0

\* track_download has no check of its arguments: a call with a None id
\* runs the same statements as any other.  The INSERT then fails on the
\* NOT NULL column, an IntegrityError like the foreign key's.
TrackDownloadInvalid(s, u, d, t) ==
    /\ u = NullId \/ d = NullId
    /\ AllIdle
    /\ TrackDownloadBegin(s, u, d, t)

NextInvalid ==
    \/ NextSeq
    \/ \E s \in Sessions, u \in Users \cup {NullId},
          d \in Datasets \cup {NullId}, t \in DownloadTypes :
          TrackDownloadInvalid(s, u, d, t)

SpecInvalid ==
    Init /\ [][NextInvalid]_vars

\* C13: a call whose user_id or dataset_id is None is rejected before its
\* first query: it never gets past the point where the lookup is issued.
C13_NoneIdsRejectedFirst ==
    \A s \in Sessions :
        (pc[s] # "idle"
            /\ (local[s].user_id = NullId \/ local[s].dataset_id = NullId)) =>
                pc[s] = "lookup"

\* ----------------------------------------------------------- termination
\* the statements of the call a session runs
SessionStep(s) ==
    \/ Lookup(s)
    \/ RepeatCommit(s)
    \/ RepeatReturn(s)
    \/ FirstQuery(s)
    \/ FirstCommit(s)
    \/ RetryLookup(s)
    \/ RetryCommit(s)
    \/ RetryReturn(s)

\* track_download called from concurrent requests, with users and datasets
\* deleted meanwhile
NextCalls ==
    \/ \E s \in Sessions, u \in Users, d \in Datasets, t \in DownloadTypes :
          TrackDownloadBegin(s, u, d, t)
    \/ \E s \in Sessions : SessionStep(s)
    \/ \E u \in Users : DeleteUser(u)
    \/ \E d \in Datasets : DeleteDataset(d)

\* every request runs on a worker thread of its own, which goes on to its
\* next statement
SpecLive ==
    Init /\ [][NextCalls]_vars /\ \A s \in Sessions : WF_vars(SessionStep(s))

\* how far into track_download a position is
PcRank(p) ==
    CASE p = "idle" -> 0
      [] p = "lookup" -> 1
      [] p \in {"repeat_commit", "first_query"} -> 2
      [] p \in {"repeat_return", "first_commit"} -> 3
      [] p = "retry_lookup" -> 4
      [] p = "retry_commit" -> 5
      [] p = "retry_return" -> 6

\* C14: every step of a call either ends it or moves it forward (so the
\* re-fetch after a conflict happens at most once and nothing loops), and
\* every call that has begun ends, whatever the other sessions do.
C14_TerminatesAfterOneRetry ==
    /\ [][\A s \in Sessions :
            pc'[s] # pc[s] =>
                \/ pc'[s] = "idle"
                \/ PcRank(pc'[s]) > PcRank(pc[s])]_vars
    /\ \A s \in Sessions : (pc[s] # "idle") ~> (pc[s] = "idle")

\* a call that lost the insert race is back, having re-fetched once
C14_Witness ==
    \E i \in DOMAIN returned :
        /\ returned[i].branch = "retry"
        /\ ~returned[i].raised
        /\ returned[i].total_user_downloads = 2
        /\ AllIdle

\* ------------------------------------------------ an existing ledger row
\* the store as the first download of dataset 1 by user 1 left it; the
\* calls counted and the outcomes recorded are those made from here on
InitLedger ==
    /\ users = Users
    /\ dataset_ids = Datasets
    /\ downloads_count = [d \in Datasets |-> IF d = 1 THEN 1 ELSE 0]
    /\ dataset_last_updated = [d \in Datasets |-> 0]
    /\ user_downloads =
          {[user_id |-> 1, dataset_id |-> 1, download_type |-> "file",
            first_download_date |-> 1, last_download_date |-> 1,
            total_download_count |-> 1]}
    /\ pc = [s \in Sessions |-> "idle"]
    /\ local = [s \in Sessions |-> IdleLocal]
    /\ clock = 1
    /\ calls = 0
    /\ returned = <<>>
    /\ report = NoReport

\* delete_dataset is left out: while a row refers to the dataset its
\* commit fails, and the row goes only together with the dataset
NextLedger ==
    \/ \E s \in Sessions, u \in Users, d \in Datasets, t \in DownloadTypes :
          TrackDownloadBegin(s, u, d, t)
    \/ \E s \in Sessions : SessionStep(s)
    \/ \E u \in Users : DeleteUser(u)

SpecLedger ==
    InitLedger /\ [][NextLedger]_vars

\* C15: total_download_count of every row is at least 1, and from one
\* committed state to the next the count of a pair's row never goes down.
C15_RowCountMonotonic ==
    [][\A r \in user_downloads' :
          /\ r.total_download_count >= 1
          /\ \A q \in RowsOf(r.user_id, r.dataset_id) :
                r.total_download_count >= q.total_download_count]_vars

\* C16: the dataset_download_count a call returns is the committed
\* downloads_count of its dataset as the call returns, which is the value
\* committed before plus 1 for a first download and the value committed
\* before, unchanged, for a repeat or a conflict-retry.
C16_ReturnedCountIsCommitted ==
    [][(Len(returned') > Len(returned) /\ ~LastOutcome.raised
          /\ LastOutcome.dataset_id \in dataset_ids) =>
            LET d == LastOutcome.dataset_id
            IN  /\ LastOutcome.dataset_download_count = downloads_count'[d]
                /\ downloads_count'[d] =
                      IF LastOutcome.is_first_download
                      THEN downloads_count[d] + 1
                      ELSE downloads_count[d]]_vars

\* ------------------------------------------- other writers of a dataset
\* DatasetService.update_dataset: name, description, location, period and
\* tags as the request gives them, dataset_last_updated = now; the UPDATE
\* carries the changed columns only
UpdateDataset(d) ==
    /\ d \in dataset_ids
    /\ dataset_last_updated' = [dataset_last_updated EXCEPT ![d] = clock]
    /\ UNCHANGED <<report,
                   users, dataset_ids, downloads_count, user_downloads, pc,
                   local, clock, calls, returned>>

\* POST /upload-file/: dataset_last_updated = now, then the file row
UploadFile(d) ==
    /\ d \in dataset_ids
    /\ dataset_last_updated' = [dataset_last_updated EXCEPT ![d] = clock]
    /\ UNCHANGED <<report,
                   users, dataset_ids, downloads_count, user_downloads, pc,
                   local, clock, calls, returned>>

\* DELETE /delete_file/{file_id}: the file row, dataset_last_updated = now
DeleteFile(d) ==
    /\ d \in dataset_ids
    /\ dataset_last_updated' = [dataset_last_updated EXCEPT ![d] = clock]
    /\ UNCHANGED <<report,
                   users, dataset_ids, downloads_count, user_downloads, pc,
                   local, clock, calls, returned>>

\* GET /{file_id}/download: the increment of the dataset's counter is
\* commented out
DownloadFileCountMut(c) ==
    c + 1
DownloadFileCount(c) ==
    c

\* ... the endpoint reads the file row, fetches the bytes and streams them
\* (a missing file row or a failed fetch raises and changes nothing); it
\* takes no user and does not call track_download
DownloadFile(d) ==
    /\ d \in dataset_ids
    /\ downloads_count' =
          [downloads_count EXCEPT ![d] = DownloadFileCount(@)]
    /\ report' = [op |-> "download_file", dataset_id |-> d,
                  response |-> "stream"]
    /\ UNCHANGED <<users, dataset_ids, dataset_last_updated, user_downloads,
                   pc, local, clock, calls, returned>>

NextOps ==
    \/ NextCalls
    \/ \E d \in Datasets : UpdateDataset(d)
    \/ \E d \in Datasets : UploadFile(d)
    \/ \E d \in Datasets : DeleteFile(d)
    \/ \E d \in Datasets : DownloadFile(d)

SpecOps ==
    Init /\ [][NextOps]_vars

\* C17: the downloads_count of a dataset changes only in the step in which
\* a call for that dataset commits its first-download branch and returns
\* is_first_download = TRUE.
C17_OnlyFirstDownloadWrites ==
    [][\A d \in dataset_ids \cap dataset_ids' :
          downloads_count'[d] # downloads_count[d] =>
              /\ \E s \in Sessions :
                    /\ pc[s] = "first_commit"
                    /\ local[s].dataset_id = d
                    /\ pc'[s] = "idle"
              /\ Len(returned') > Len(returned)
              /\ LastOutcome.dataset_id = d
              /\ LastOutcome.is_first_download]_vars

\* the dataset was updated after a download of it was counted, a call for
\* it took the conflict-retry branch, a user was deleted, and the counter
\* shows the one first download
C17_Witness ==
    \E d \in dataset_ids :
        /\ downloads_count[d] = 1
        /\ dataset_last_updated[d] >= 1
        /\ users # Users
        /\ AllIdle
        /\ \E i \in DOMAIN returned :
              /\ returned[i].dataset_id = d
              /\ returned[i].branch = "retry"
              /\ ~returned[i].raised

\* C25: no ledger row refers to a user or a dataset that no longer exists,
\* and delete_dataset goes through for every existing dataset, downloaded
\* or not (its rows go with it).
C25_DeletionsRemoveRows ==
    /\ \A r \in user_downloads :
          r.user_id \in users /\ r.dataset_id \in dataset_ids
    /\ \A d \in dataset_ids :
          Deleted < MaxDeletes => ENABLED DeleteDataset(d)

\* C24: every delivery of a file by the file download endpoint records a
\* download event: the step that streams the file starts a track_download
\* call or writes the ledger row of some user for the file's dataset.
C24_FileDownloadIsTracked ==
    [][(report' # report /\ report'.op = "download_file") =>
          \/ calls' > calls
          \/ \E s \in Sessions : pc[s] = "idle" /\ pc'[s] # "idle"
          \/ \E u \in Users, d \in dataset_ids :
                d = report'.dataset_id /\ RowsOf(u, d)' # RowsOf(u, d)
      ]_vars

\* C18: a row is created with first_download_date = the instant of its
\* creation, and no later step gives the pair's row another
\* first_download_date.
C18_FirstDateFixed ==
    [][\A r \in user_downloads' :
          IF HasRow(r.user_id, r.dataset_id)
          THEN r.first_download_date =
                   FirstRow(r.user_id, r.dataset_id).first_download_date
          ELSE r.first_download_date = r.last_download_date]_vars

\* a row updated later than it was created, by a repeat call and by a
\* conflict-retry call
C18_Witness ==
    \E r \in user_downloads :
        /\ r.total_download_count >= 2
        /\ r.last_download_date > r.first_download_date
        /\ \E i, j \in OkOf(r.user_id, r.dataset_id) :
              /\ returned[i].branch = "repeat"
              /\ returned[j].branch = "retry"

\* C19: every request of the dataset download endpoint that built its ZIP
\* and called track_download gets the streaming response, whether the call
\* returned or raised.
C19_TrackingErrorStillDelivers ==
    \A i \in DOMAIN returned :
        returned[i].response # "none" => returned[i].response = "streaming"

\* one request of the endpoint whose track_download raised and one whose
\* track_download returned, both answered
C19_Witness ==
    \E i, j \in DOMAIN returned :
        /\ returned[i].response = "streaming" /\ returned[i].raised
        /\ returned[j].response = "streaming" /\ ~returned[j].raised

\* C20: while a request of the dataset download endpoint is inside
\* track_download, its content has already been streamed to the client and
\* some file content was fetched for it.
C20_TrackedOnlyAfterDelivery ==
    \A s \in Sessions :
        (pc[s] # "idle" /\ local[s].endpoint) =>
            /\ local[s].streamed
            /\ local[s].fetched

\* ------------------------------------------------------------- analytics
\* the greatest limit a caller of get_user_download_history passes
MaxLimit ==
    2

Limits ==
    1..MaxLimit

\* sum(d.total_download_count for d in downloads)
RECURSIVE SumCounts(_)
SumCounts(rows) ==
    IF rows = {} THEN 0
    ELSE LET r == CHOOSE x \in rows : TRUE
         IN  r.total_download_count + SumCounts(rows \ {r})

\* one entry of the history list (dataset_name is not modelled)
HistoryEntry(r) ==
    [dataset_id |-> r.dataset_id,
     first_download_date |-> r.first_download_date,
     last_download_date |-> r.last_download_date,
     download_type |-> r.download_type,
     total_downloads |-> r.total_download_count]

\* .join(Dataset, ...).filter(UserDownload.user_id == user_id)
JoinedRowsOfUser(u) ==
    {r \in user_downloads : r.user_id = u /\ r.dataset_id \in dataset_ids}

\* .order_by(desc(UserDownload.last_download_date))
OrderedByMut(q, r) ==
    q.last_download_date <= r.last_download_date
OrderedBy(q, r) ==
    q.last_download_date >= r.last_download_date

\* every order the database may return the rows in (rows with equal
\* last_download_date come in any order)
Orderings(rows) ==
    {h \in [1..Cardinality(rows) -> rows] :
        /\ \A i, j \in DOMAIN h : i # j => h[i] # h[j]
        /\ \A i, j \in DOMAIN h : i < j => OrderedBy(h[i], h[j])}

\* .limit(limit).all(), then the list of dicts
UserDownloadHistories(u, limit) ==
    {[i \in 1..(IF Len(h) < limit THEN Len(h) ELSE limit) |->
         HistoryEntry(h[i])] : h \in Orderings(JoinedRowsOfUser(u))}

\* len([d for d in downloads if d.download_type == 'mixed'])
MixedDownloadsMut(rows) ==
    Cardinality({r \in rows : r.download_type = "both"})
MixedDownloads(rows) ==
    Cardinality({r \in rows : r.download_type = "mixed"})

\* get_dataset_download_stats (the rounded average is not modelled)
DatasetDownloadStats(d) ==
    IF d \notin dataset_ids
    THEN [error |-> "Dataset not found"]
    ELSE LET downloads == RowsOfDataset(d)
         IN  [dataset_id |-> d,
              official_download_count |-> downloads_count[d],
              unique_downloaders |-> Cardinality(downloads),
              total_download_events |-> SumCounts(downloads),
              file_only |->
                  Cardinality({r \in downloads : r.download_type = "file"}),
              dataset_only |->
                  Cardinality({r \in downloads :
                                  r.download_type = "dataset"}),
              mixed |-> MixedDownloads(downloads)]

\* get_platform_download_stats: the totals, the datasets by downloads_count
\* and the users by number of rows (names and the order of the top-10
\* lists are not modelled)
PlatformDownloadStats ==
    [total_unique_downloads |-> Cardinality(user_downloads),
     total_download_events |-> SumCounts(user_downloads),
     popular_datasets |->
         {<<d, downloads_count[d]>> : d \in dataset_ids},
     active_users |->
         {<<u, Cardinality({r \in user_downloads : r.user_id = u})>> :
             u \in {r.user_id : r \in user_downloads}}]

\* is_first_download: existing is None
\* (a variant that filters on the dataset alone)
IsFirstDownloadMut(u, d) ==
    RowsOfDataset(d) = {}
IsFirstDownload(u, d) ==
    ~HasRow(u, d)

\* AdminRepository.get_enhanced_download_analytics (every dataset taken as
\* approved; ratios, names and the 30-day window are not modelled)
EnhancedDownloadAnalytics ==
    [unique_download_relationships |-> Cardinality(user_downloads),
     total_download_events |-> SumCounts(user_downloads),
     datasets_with_downloads |->
         Cardinality({d \in dataset_ids : downloads_count[d] > 0})]

\* the store as a read-only request leaves it
ReadOnly ==
    UNCHANGED <<users, dataset_ids, downloads_count, dataset_last_updated,
                user_downloads, pc, local, clock, calls, returned>>

GetUserDownloadHistory(u, limit) ==
    /\ \E h \in UserDownloadHistories(u, limit) :
          report' = [op |-> "user_history", user_id |-> u, limit |-> limit,
                     result |-> h]
    /\ ReadOnly

\* a variant that writes the row count back into downloads_count
GetDatasetDownloadStatsMut(d) ==
    /\ report' = [op |-> "dataset_stats", dataset_id |-> d,
                  result |-> DatasetDownloadStats(d)]
    /\ downloads_count' =
          [x \in DOMAIN downloads_count |->
             IF x = d THEN Cardinality(RowsOfDataset(d)) + 1
             ELSE downloads_count[x]]
    /\ UNCHANGED <<users, dataset_ids, dataset_last_updated,
                   user_downloads, pc, local, clock, calls, returned>>
GetDatasetDownloadStats(d) ==
    /\ report' = [op |-> "dataset_stats", dataset_id |-> d,
                  result |-> DatasetDownloadStats(d)]
    /\ ReadOnly

GetPlatformDownloadStats ==
    /\ report' = [op |-> "platform_stats", result |-> PlatformDownloadStats]
    /\ ReadOnly

IsFirstDownloadCall(u, d) ==
    /\ report' = [op |-> "is_first_download", user_id |-> u,
                  dataset_id |-> d, result |-> IsFirstDownload(u, d),
                  done |-> Cardinality(OutcomesOf(u, d))]
    /\ ReadOnly

GetEnhancedDownloadAnalytics ==
    /\ report' = [op |-> "enhanced_analytics",
                  result |-> EnhancedDownloadAnalytics]
    /\ ReadOnly

\* requests made one after another, as the test script makes them: calls
\* of track_download and, between them, analytics requests
NextAnalytics ==
    \/ \E s \in Sessions, u \in Users, d \in Datasets,
          kept \in BOOLEAN, fetched \in BOOLEAN :
          AllIdle /\ DownloadDatasetBegin(s, u, d, kept, fetched)
    \/ \E s \in Sessions, u \in Users, d \in Datasets, t \in DownloadTypes :
          AllIdle /\ TrackDownloadBegin(s, u, d, t)
    \/ \E s \in Sessions : Lookup(s)
    \/ \E s \in Sessions : RepeatCommit(s)
    \/ \E s \in Sessions : RepeatReturn(s)
    \/ \E s \in Sessions : FirstQuery(s)
    \/ \E s \in Sessions : FirstCommit(s)
    \/ \E u \in Users, limit \in Limits :
          AllIdle /\ GetUserDownloadHistory(u, limit)
    \/ \E d \in Datasets : AllIdle /\ GetDatasetDownloadStats(d)
    \/ AllIdle /\ GetPlatformDownloadStats
    \/ \E u \in Users, d \in Datasets :
          AllIdle /\ IsFirstDownloadCall(u, d)
    \/ AllIdle /\ GetEnhancedDownloadAnalytics

SpecAnalytics ==
    Init /\ [][NextAnalytics]_vars

\* C21: a step in which an analytics operation returns leaves every
\* user_downloads row and every downloads_count as they were.
C21_AnalyticsReadOnly ==
    [][report' # report =>
          /\ user_downloads' = user_downloads
          /\ downloads_count' = downloads_count]_vars

\* the admin analytics returned a result over a store that holds a row and
\* a counted download
C21_Witness ==
    /\ report.op = "enhanced_analytics"
    /\ report.result.unique_download_relationships >= 1
    /\ report.result.datasets_with_downloads >= 1
    /\ user_downloads # {}

\* concurrent calls of track_download and, once they are all back, the
\* statistics of a dataset
NextStats ==
    \/ \E s \in Sessions, u \in Users, d \in Datasets, t \in DownloadTypes :
          TrackDownloadBegin(s, u, d, t)
    \/ \E s \in Sessions : SessionStep(s)
    \/ \E d \in Datasets : AllIdle /\ GetDatasetDownloadStats(d)

SpecStats ==
    Init /\ [][NextStats]_vars

\* outcomes of the calls for dataset d that returned a result
OkOfDataset(d) ==
    {i \in DOMAIN returned :
        returned[i].dataset_id = d /\ ~returned[i].raised}

\* C22: with every call back (and no user or dataset deleted), the
\* statistics of a dataset report unique_downloaders = the number of
\* distinct users whose call for it returned, total_download_events = the
\* number of calls for it that returned, and official_download_count =
\* unique_downloaders.
C22_StatsMatchCalls ==
    [][(report' # report /\ report'.op = "dataset_stats"
          /\ report'.dataset_id \in dataset_ids /\ Deleted = 0) =>
            LET d == report'.dataset_id
                stats == report'.result
            IN  /\ stats.unique_downloaders =
                      Cardinality({u \in Users : OkOf(u, d) # {}})
                /\ stats.total_download_events =
                      Cardinality(OkOfDataset(d))
                /\ stats.official_download_count =
                      stats.unique_downloaders]_vars

\* ------------------------------------------- a history over two datasets
NumHistoryDatasets ==
    2

HistoryDatasets ==
    1..NumHistoryDatasets

\* the store after user 1 downloaded dataset 1 at instant 1, dataset 2 at
\* instant 2, ..., and user 2 downloaded dataset 1 after that; the calls
\* counted and the outcomes recorded are those made from here on
InitHistory ==
    /\ users = Users
    /\ dataset_ids = HistoryDatasets
    /\ downloads_count = [d \in HistoryDatasets |-> IF d = 1 THEN 2 ELSE 1]
    /\ dataset_last_updated = [d \in HistoryDatasets |-> 0]
    /\ user_downloads =
          {[user_id |-> 1, dataset_id |-> d, download_type |-> "dataset",
            first_download_date |-> d, last_download_date |-> d,
            total_download_count |-> 1] : d \in HistoryDatasets}
          \cup
          {[user_id |-> 2, dataset_id |-> 1, download_type |-> "dataset",
            first_download_date |-> NumHistoryDatasets + 1,
            last_download_date |-> NumHistoryDatasets + 1,
            total_download_count |-> 1]}
    /\ pc = [s \in Sessions |-> "idle"]
    /\ local = [s \in Sessions |-> IdleLocal]
    /\ clock = NumHistoryDatasets + 1
    /\ calls = 0
    /\ returned = <<>>
    /\ report = NoReport

NextHistory ==
    \/ \E s \in Sessions, u \in Users, d \in HistoryDatasets,
          t \in DownloadTypes : TrackDownloadBegin(s, u, d, t)
    \/ \E s \in Sessions : SessionStep(s)
    \/ \E u \in Users, limit \in Limits :
          AllIdle /\ GetUserDownloadHistory(u, limit)

SpecHistory ==
    InitHistory /\ [][NextHistory]_vars

\* the history is made of rows of the user, one per dataset, at most
\* `limit` of them, most recent last_download_date first
HistoryWellFormed(u, limit, h) ==
    /\ Len(h) <= limit
    /\ \A i \in DOMAIN h :
          \E r \in RowsOf(u, h[i].dataset_id) : HistoryEntry(r) = h[i]
    /\ \A i, j \in DOMAIN h : i # j => h[i].dataset_id # h[j].dataset_id
    /\ \A i, j \in DOMAIN h :
          i < j => h[i].last_download_date >= h[j].last_download_date

\* dataset d heads every history the user can be given
HeadsHistory(u, d) ==
    \A h \in UserDownloadHistories(u, 1) :
        Len(h) = 1 /\ h[1].dataset_id = d

\* C23: get_user_download_history(user_id, limit) returns only rows of that
\* user, at most limit of them, one per dataset, ordered by
\* last_download_date from most recent to oldest; and the dataset the user
\* downloaded last comes first: when the dataset that heads the history is
\* downloaded once more by the user, it still heads the history.
C23_HistoryMostRecentFirst ==
    [][/\ (report' # report /\ report'.op = "user_history") =>
             HistoryWellFormed(report'.user_id, report'.limit,
                               report'.result)
       /\ \A u \in Users, d \in dataset_ids :
             (HeadsHistory(u, d) /\ RowsOf(u, d)' # RowsOf(u, d)) =>
                 HeadsHistory(u, d)']_vars

\* ------------------------------------------------- is_first_download
\* concurrent calls of track_download and, at any moment, is_first_download
NextFirst ==
    \/ \E s \in Sessions, u \in Users, d \in Datasets, t \in DownloadTypes :
          TrackDownloadBegin(s, u, d, t)
    \/ \E s \in Sessions : SessionStep(s)
    \/ \E u \in Users, d \in Datasets : IsFirstDownloadCall(u, d)

SpecFirst ==
    Init /\ [][NextFirst]_vars

\* a call for the pair has committed: it returned a result, or it is past
\* its commit and about to return
Committed(u, d) ==
    \/ OkOf(u, d) # {}
    \/ \E s \in InFlight(u, d) : pc[s] \in {"repeat_return", "retry_return"}

\* C26: is_first_download(u, d) returns TRUE exactly when no track_download
\* for the pair has committed; and the next call for the pair to return,
\* with no other call for the pair in between, returns the same
\* is_first_download flag.
C26_IsFirstDownloadAgrees ==
    [][/\ (report' # report /\ report'.op = "is_first_download") =>
             (report'.result <=>
                 ~Committed(report'.user_id, report'.dataset_id))
       /\ (/\ report.op = "is_first_download"
           /\ Len(returned') > Len(returned)
           /\ LastOutcome.user_id = report.user_id
           /\ LastOutcome.dataset_id = report.dataset_id
           /\ ~LastOutcome.raised
           /\ report.done =
                 Cardinality(OutcomesOf(report.user_id, report.dataset_id))
           /\ InFlight(report.user_id, report.dataset_id)' = {}) =>
             (LastOutcome.is_first_download <=> report.result)]_vars

\* is_first_download said FALSE for a pair, and the next call for the pair
\* came back as a repeat download
C26_Witness ==
    /\ report.op = "is_first_download"
    /\ ~report.result
    /\ Len(returned) >= 2
    /\ returned[Len(returned)].user_id = report.user_id
    /\ returned[Len(returned)].dataset_id = report.dataset_id
    /\ ~returned[Len(returned)].is_first_download
    /\ ~returned[Len(returned)].raised
    /\ report.done + 1 =
          Cardinality(OutcomesOf(report.user_id, report.dataset_id))

\* ---------------------------------------------- the values a pair is told
\* C27: once the calls for a pair are all back, the total_user_downloads
\* values that the M calls that returned a result were given are pairwise
\* distinct and are exactly 1..M.
C27_TotalsAreOneToM ==
    \A u \in users, d \in dataset_ids :
        InFlight(u, d) = {} =>
            /\ \A i, j \in OkOf(u, d) :
                  returned[i].total_user_downloads =
                      returned[j].total_user_downloads => i = j
            /\ {returned[i].total_user_downloads : i \in OkOf(u, d)} =
                  1..Cardinality(OkOf(u, d))

\* ------------------------------------------------- dates of a ledger row
\* C28: in every committed state a row's last_download_date is not earlier
\* than its first_download_date, and from one committed state to the next
\* the last_download_date of a pair's row never moves backwards.
C28_LastDateMonotonic ==
    [][\A r \in user_downloads' :
          /\ r.last_download_date >= r.first_download_date
          /\ \A q \in RowsOf(r.user_id, r.dataset_id) :
                r.last_download_date >= q.last_download_date]_vars

\* ------------------------------------------------- type of a ledger row
\* C29: a row whose download_type is 'mixed' keeps it whatever later calls
\* for the pair commit, and in no step does a row's type go from 'file' to
\* 'dataset' or from 'dataset' to 'file': a type changes only to 'mixed'.
C29_MixedIsAbsorbing ==
    [][\A r \in user_downloads' :
          \A q \in RowsOf(r.user_id, r.dataset_id) :
              /\ q.download_type = "mixed" => r.download_type = "mixed"
              /\ r.download_type \in {q.download_type, "mixed"}]_vars

\* a pair downloaded as a file, then as a dataset, then as a file again,
\* one call after another, whose row is 'mixed' after the third call
C29_Witness ==
    \E u \in users, d \in dataset_ids :
        /\ InFlight(u, d) = {}
        /\ \E r \in RowsOf(u, d) :
              r.download_type = "mixed" /\ r.total_download_count = 3
        /\ \E i, j, k \in OkOf(u, d) :
              /\ i < j /\ j < k
              /\ returned[i].download_type = "file"
              /\ returned[j].download_type = "dataset"
              /\ returned[k].download_type = "file"
              /\ returned[j].total_user_downloads = 2
              /\ returned[k].total_user_downloads = 3

\* ---------------------------------------------- the breakdown by type
\* C30: in every result of get_dataset_download_stats, after track_download
\* calls with download_type 'file' or 'dataset', file_only + dataset_only
\* + mixed = unique_downloaders.
C30_BreakdownSumsToDownloaders ==
    (report.op = "dataset_stats" /\ "error" \notin DOMAIN report.result) =>
        report.result.file_only + report.result.dataset_only
            + report.result.mixed = report.result.unique_downloaders

\* statistics of a dataset that one user downloaded both ways and another
\* in one way only
C30_Witness ==
    /\ report.op = "dataset_stats"
    /\ "error" \notin DOMAIN report.result
    /\ report.result.mixed >= 1
    /\ report.result.file_only + report.result.dataset_only >= 1
    /\ report.result.unique_downloaders >= 2

====
